---- MODULE Spec2Model ----
(***************************************************************************)
(* The JSON parser of packages/step-4/src/main.rs.                         *)
(*                                                                         *)
(* The parser is a pure function from an input text to a nom IResult.  A  *)
(* text is a sequence of characters (one-character strings); a parser     *)
(* `p(s, i)` reads the text s from index i and answers a result record:   *)
(*   kind = "Ok"       Ok((rest, val)), rest starting at index pos        *)
(*   kind = "Error"    Err(nom::Err::Error(e)), recoverable               *)
(*   kind = "Failure"  Err(nom::Err::Failure(e)), fatal                   *)
(*   kind = "Panic"    the thread panicked (an unwrap() on Err)            *)
(* e is a VerboseError: the list `err` of (position, kind) entries in the *)
(* order VerboseError pushes them.  The nom combinators are the external  *)
(* crate nom 7; each is written here with the behaviour of its            *)
(* `complete` variant over &str.                                          *)
(***************************************************************************)
EXTENDS Integers, Sequences, FiniteSets, TLC

VARIABLES input, op, result

vars == <<input, op, result>>

----------------------------------------------------------------------------
(* Results and VerboseError                                                *)

NoValue == [t |-> "none"]

Ok(pos, val) == [kind |-> "Ok", pos |-> pos, val |-> val, err |-> <<>>]

\* Err(nom::Err::Error(e)) / Err(nom::Err::Failure(e)) / a panic
Err(kind, err) == [kind |-> kind, pos |-> 0, val |-> NoValue, err |-> err]

Panic(at, what) == Err("Panic", <<[at |-> at, k |-> "Panic", d |-> what]>>)

\* VerboseError::from_error_kind(input, kind)
from_error_kind(at, kind) == <<[at |-> at, k |-> "Nom", d |-> kind]>>

\* VerboseError::from_char(input, c)
from_char(at, c) == <<[at |-> at, k |-> "Char", d |-> c]>>

\* VerboseError::append(input, kind, other)
append(at, kind, other) == Append(other, [at |-> at, k |-> "Nom", d |-> kind])

\* VerboseError::add_context(input, ctx, other)
add_context(at, ctx, other) == Append(other, [at |-> at, k |-> "Context", d |-> ctx])

IsOk(r) == r.kind = "Ok"

----------------------------------------------------------------------------
(* Characters                                                              *)

\* the end-of-input marker answered by At beyond the text
EOF == ""

At(s, i) == IF i >= 1 /\ i <= Len(s) THEN s[i] ELSE EOF

\* char::is_whitespace-like set of nom's multispace: space, tab, CR, LF
Whitespace == {" ", "\t", "\r", "\n"}

Digits == {"0", "1", "2", "3", "4", "5", "6", "7", "8", "9"}

DigitVal(c) ==
    CASE c = "0" -> 0 [] c = "1" -> 1 [] c = "2" -> 2 [] c = "3" -> 3
      [] c = "4" -> 4 [] c = "5" -> 5 [] c = "6" -> 6 [] c = "7" -> 7
      [] c = "8" -> 8 [] c = "9" -> 9

\* char::to_digit(16): the value of a hexadecimal digit, -1 for any other char
HexVal(c) ==
    IF c \in Digits THEN DigitVal(c)
    ELSE CASE c = "a" \/ c = "A" -> 10
           [] c = "b" \/ c = "B" -> 11
           [] c = "c" \/ c = "C" -> 12
           [] c = "d" \/ c = "D" -> 13
           [] c = "e" \/ c = "E" -> 14
           [] c = "f" \/ c = "F" -> 15
           [] OTHER -> -1

\* The Unicode scalar value of a character of the texts used here (a Rust
\* char is a scalar value; decoded strings are sequences of scalar values).
CodePoint(c) ==
    CASE c = " " -> 32 [] c = "\t" -> 9 [] c = "\n" -> 10 [] c = "\r" -> 13
      [] c = "\"" -> 34 [] c = "+" -> 43 [] c = "," -> 44 [] c = "-" -> 45
      [] c = "." -> 46 [] c = "/" -> 47 [] c = ":" -> 58
      [] c \in Digits -> 48 + DigitVal(c)
      [] c = "A" -> 65 [] c = "B" -> 66 [] c = "C" -> 67 [] c = "D" -> 68
      [] c = "E" -> 69 [] c = "F" -> 70 [] c = "G" -> 71
      [] c = "[" -> 91 [] c = "\\" -> 92 [] c = "]" -> 93
      [] c = "a" -> 97 [] c = "b" -> 98 [] c = "c" -> 99 [] c = "d" -> 100
      [] c = "e" -> 101 [] c = "f" -> 102 [] c = "g" -> 103 [] c = "i" -> 105
      [] c = "k" -> 107 [] c = "l" -> 108 [] c = "n" -> 110 [] c = "q" -> 113
      [] c = "r" -> 114 [] c = "s" -> 115 [] c = "t" -> 116 [] c = "u" -> 117
      [] c = "x" -> 120 [] c = "y" -> 121
      [] c = "{" -> 123 [] c = "}" -> 125

----------------------------------------------------------------------------
(* nom primitives                                                          *)

RECURSIVE SpanEnd(_, _, _)
\* the first index j >= i with s[j] not in set (Len(s)+1 when there is none)
SpanEnd(s, i, set) ==
    IF i <= Len(s) /\ s[i] \in set THEN SpanEnd(s, i + 1, set) ELSE i

RECURSIVE StartsWith(_, _, _)
\* whether the text t is read from index i of s
StartsWith(s, i, t) ==
    IF t = <<>> THEN TRUE
    ELSE IF At(s, i) # Head(t) THEN FALSE
    ELSE StartsWith(s, i + 1, Tail(t))

\* nom::bytes::complete::tag
tag(t, s, i) ==
    IF StartsWith(s, i, t) THEN Ok(i + Len(t), t)
    ELSE Err("Error", from_error_kind(i, "Tag"))

\* nom::character::complete::char
char(c, s, i) ==
    IF At(s, i) = c THEN Ok(i + 1, c)
    ELSE Err("Error", from_char(i, c))

\* nom::character::complete::anychar
anychar(s, i) ==
    IF i <= Len(s) THEN Ok(i + 1, s[i])
    ELSE Err("Error", from_error_kind(i, "Eof"))

\* nom::bytes::complete::take(n) over &str: n characters
take(n, s, i) ==
    IF i + n - 1 <= Len(s) THEN Ok(i + n, SubSeq(s, i, i + n - 1))
    ELSE Err("Error", from_error_kind(i, "Eof"))

\* nom::character::complete::multispace0: always succeeds
multispace0(s, i) == Ok(SpanEnd(s, i, Whitespace), <<>>)

\* nom::character::complete::multispace1
multispace1(s, i) ==
    IF At(s, i) \in Whitespace THEN Ok(SpanEnd(s, i, Whitespace), <<>>)
    ELSE Err("Error", from_error_kind(i, "MultiSpace"))

\* nom::combinator::peek applied to a result obtained at index i
peek(r, i) == IF IsOk(r) THEN [r EXCEPT !.pos = i] ELSE r

\* nom::combinator::cut: a recoverable Error becomes a Failure
cut(r) == IF r.kind = "Error" THEN [r EXCEPT !.kind = "Failure"] ELSE r

\* nom::error::context applied to a result obtained at index i
context(ctx, r, i) ==
    IF r.kind \in {"Error", "Failure"}
    THEN [r EXCEPT !.err = add_context(i, ctx, r.err)]
    ELSE r

\* nom::combinator::map / value: the output of an Ok result is replaced
mapval(r, v) == IF IsOk(r) THEN [r EXCEPT !.val = v] ELSE r

----------------------------------------------------------------------------
(* Sequencing.  A parser that runs one sub-parser after another hands each *)
(* sub-result to the operator that continues from it, as the `?` operator  *)
(* and nom's sequence combinators do.                                      *)

\* the rest of nom::sequence::terminated once `first` is Ok
terminated(first, second) ==
    IF ~IsOk(second) THEN second ELSE Ok(second.pos, first.val)

\* the rest of nom::sequence::separated_pair once `first` and the separator are Ok
separated_pair(first, second) ==
    IF ~IsOk(second) THEN second ELSE Ok(second.pos, <<first.val, second.val>>)

----------------------------------------------------------------------------
(* Literals                                                                *)

JNull == [t |-> "Null"]

JBoolean(b) == [t |-> "Boolean", v |-> b]

JStr(cps) == [t |-> "Str", v |-> cps]

JNum(n) == [t |-> "Num", v |-> n]

JArray(elems) == [t |-> "Array", v |-> elems]

JObject(m) == [t |-> "Object", v |-> m]

\* value(true, tag("true"))
parse_true(s, i) == mapval(tag(<<"t", "r", "u", "e">>, s, i), TRUE)

\* value(false, tag("false"))
parse_false(s, i) == mapval(tag(<<"f", "a", "l", "s", "e">>, s, i), FALSE)

\* value((), tag("null"))
null(s, i) == mapval(tag(<<"n", "u", "l", "l">>, s, i), <<>>)

----------------------------------------------------------------------------
(* Numbers: nom::number::complete::double                                  *)

RECURSIVE DigitsVal(_, _, _, _)
\* the number written by the decimal digits s[i..j-1], continuing acc
DigitsVal(s, i, j, acc) ==
    IF i >= j THEN acc ELSE DigitsVal(s, i + 1, j, acc * 10 + DigitVal(s[i]))

RECURSIVE Pow10Norm(_, _)
\* m * 10^e with the trailing zeros of m moved into e; zero is <<0, 0>>
Pow10Norm(m, e) ==
    IF m = 0 THEN <<0, 0>>
    ELSE IF m % 10 = 0 THEN Pow10Norm(m \div 10, e + 1)
    ELSE <<m, e>>

\* sign * m * 10^e as a record; -0.0 = 0.0 as in f64
FloatRecord(neg, n) == [neg |-> neg /\ n[1] # 0, m |-> n[1], e |-> n[2]]

\* The f64 a float literal denotes, kept exactly as sign * m * 10^e (the
\* literals used here are short enough to be exact).
FloatOf(neg, mant, fraclen, exp) == FloatRecord(neg, Pow10Norm(mant, exp - fraclen))

\* the exponent part opt((e|E) opt(sign) cut(digit1)) read at mEnd, and
\* str::parse::<f64> of the recognized text
double_exponent(s, i, neg, mant, fraclen, mEnd, p4, p5) ==
    IF At(s, mEnd) \notin {"e", "E"} THEN Ok(mEnd, FloatOf(neg, mant, fraclen, 0))
    ELSE IF p5 = p4 THEN Err("Failure", from_error_kind(i, "Float"))
    ELSE IF At(s, mEnd + 1) = "-"
    THEN Ok(p5, FloatOf(neg, mant, fraclen, 0 - DigitsVal(s, p4, p5, 0)))
    ELSE Ok(p5, FloatOf(neg, mant, fraclen, DigitsVal(s, p4, p5, 0)))

\* the mantissa (digit1 opt('.' opt(digit1)) | '.' digit1) read at p1: p2 ends
\* the integer digits, p3 the fraction digits
double_mantissa(s, i, neg, p1, p2, p3) ==
    IF p2 = p1 /\ ~(At(s, p2) = "." /\ p3 > p2 + 1)
    THEN Err("Error", append(i, "Alt", from_error_kind(i, "Float")))
    ELSE double_exponent(s, i, neg,
             DigitsVal(s, p2 + 1, p3, DigitsVal(s, p1, p2, 0)),
             IF p3 > p2 THEN p3 - (p2 + 1) ELSE 0,
             p3,
             IF At(s, p3 + 1) \in {"+", "-"} THEN p3 + 2 ELSE p3 + 1,
             SpanEnd(s, IF At(s, p3 + 1) \in {"+", "-"} THEN p3 + 2 ELSE p3 + 1, Digits))

double_int(s, i, neg, p1, p2) ==
    double_mantissa(s, i, neg, p1, p2,
        IF At(s, p2) = "." THEN SpanEnd(s, p2 + 1, Digits) ELSE p2)

double_sign(s, i, p1) == double_int(s, i, At(s, i) = "-", p1, SpanEnd(s, p1, Digits))

\* recognize_float: opt(sign), the mantissa, the exponent.  The "nan", "inf"
\* and "infinity" alternatives of recognize_float_or_exceptions begin with a
\* letter and are tried only when recognize_float fails.
double(s, i) == double_sign(s, i, IF At(s, i) \in {"+", "-"} THEN i + 1 ELSE i)

----------------------------------------------------------------------------
(* Strings and escapes                                                     *)

RECURSIVE HexDigitsVal(_, _)
\* the digits of q read in radix 16, continuing acc; -1 on an invalid digit
HexDigitsVal(q, acc) ==
    IF q = <<>> THEN acc
    ELSE IF HexVal(Head(q)) < 0 THEN -1
    ELSE HexDigitsVal(Tail(q), acc * 16 + HexVal(Head(q)))

\* the overflow check of from_str_radix for u16
CheckedU16(v) == IF v > 65535 THEN -1 ELSE v

\* u16::from_str_radix(q, 16): the value, or -1 for Err(ParseIntError).  A
\* leading '+' is accepted; '-' is an invalid digit of an unsigned type.
from_str_radix16(q) ==
    IF q = <<>> THEN -1
    ELSE IF Head(q) \in {"+", "-"} /\ Len(q) = 1 THEN -1
    ELSE CheckedU16(HexDigitsVal(IF Head(q) = "+" THEN Tail(q) ELSE q, 0))

\* Result::unwrap of the parsed u16 at the end of the four characters
unwrap(i, pos, v) == IF v < 0 THEN Panic(i, "unwrap") ELSE Ok(pos, v)

u16_hex_map(i, r) ==
    IF ~IsOk(r) THEN r ELSE unwrap(i, r.pos, from_str_radix16(r.val))

\* map(take(4usize), |s| u16::from_str_radix(s, 16).unwrap())
u16_hex(s, i) == u16_hex_map(i, take(4, s, i))

\* std::char::from_u32 answers Some exactly for the Unicode scalar values
IsScalarValue(v) == (0 <= v /\ v < 55296) \/ (57344 <= v /\ v <= 1114111)

\* !(0xD800..0xE000).contains(cp)
NotSurrogate(cp) == ~(55296 <= cp /\ cp < 57344)

\* IsSurrogatePair without the range check of the low unit
IsSurrogatePairHighOnly(high, low) == 55296 <= high /\ high < 56320

\* (0xD800..0xDC00).contains(high) && (0xDC00..0xE000).contains(low)
IsSurrogatePair(high, low) ==
    /\ 55296 <= high /\ high < 56320
    /\ 56320 <= low /\ low < 57344

\* CombineSurrogates without the 0x10000 offset of the supplementary planes
CombineSurrogatesNoOffset(high, low) == ((high - 55296) * 1024) + (low - 56320)

\* (high_ten << 10) + low_ten + 0x10000, each operand a u16 widened to u32
\* and taken after verify, so that neither subtraction goes below zero
CombineSurrogates(high, low) ==
    LET high_ten == high - 55296
        low_ten  == low - 56320
    IN (high_ten * 1024) + low_ten + 65536

verify_direct(i, r) ==
    IF ~IsOk(r) THEN r
    ELSE IF ~NotSurrogate(r.val) THEN Err("Error", from_error_kind(i, "Verify"))
    ELSE r

\* the first alternative: verify(u16_hex, not a surrogate) as u32
unicode_direct(s, i) == verify_direct(i, u16_hex(s, i))

verify_pair(i, h, l) ==
    IF ~IsOk(l) THEN l
    ELSE IF ~IsSurrogatePair(h.val, l.val)
    THEN Err("Error", from_error_kind(i, "Verify"))
    ELSE Ok(l.pos, CombineSurrogates(h.val, l.val))

pair_low(s, i, h, t) == IF ~IsOk(t) THEN t ELSE verify_pair(i, h, u16_hex(s, t.pos))

pair_sep(s, i, h) ==
    IF ~IsOk(h) THEN h ELSE pair_low(s, i, h, tag(<<"\\", "u">>, s, h.pos))

\* the second alternative: verify(separated_pair(u16_hex, tag("\\u"), u16_hex))
unicode_pair(s, i) == pair_sep(s, i, u16_hex(s, i))

alt_second(i, b) ==
    IF b.kind = "Error" THEN Err("Error", append(i, "Alt", b.err)) ELSE b

alt_first(s, i, a) ==
    IF a.kind # "Error" THEN a ELSE alt_second(i, unicode_pair(s, i))

\* alt((direct, pair)): the integer handed to std::char::from_u32
unicode_alt(s, i) == alt_first(s, i, unicode_direct(s, i))

map_opt_from_u32(i, r) ==
    IF ~IsOk(r) THEN r
    ELSE IF ~IsScalarValue(r.val) THEN Err("Error", from_error_kind(i, "MapOpt"))
    ELSE r

\* map_opt(alt(..), std::char::from_u32)
unicode_escape(s, i) == map_opt_from_u32(i, unicode_alt(s, i))

\* the match on the escape designator: the character, -1 for 'u', -2 otherwise
EscapedChar(c) ==
    CASE c \in {"\"", "\\", "/"} -> CodePoint(c)
      [] c = "b" -> 8
      [] c = "f" -> 12
      [] c = "n" -> 10
      [] c = "r" -> 13
      [] c = "t" -> 9
      [] c = "u" -> -1
      [] OTHER -> -2

\* the arms of `match escaped_char`, i being the index after the designator
escape_match(s, i, escaped_char, final_char) ==
    IF final_char = -1 THEN unicode_escape(s, i)
    ELSE IF final_char = -2 THEN Err("Failure", from_char(i, escaped_char))
    ELSE Ok(i, final_char)

parse_char_escaped(s, i, e) ==
    IF ~IsOk(e) THEN e ELSE escape_match(s, i + 2, e.val, EscapedChar(e.val))

parse_char_first(s, i, c) ==
    IF ~IsOk(c) THEN c
    ELSE IF c.val = "\"" THEN Err("Error", from_char(i + 1, "\""))
    ELSE IF c.val = "\\" THEN parse_char_escaped(s, i, anychar(s, i + 1))
    ELSE Ok(i + 1, CodePoint(c.val))

parse_char(s, i) == parse_char_first(s, i, anychar(s, i))

RECURSIVE fold_many0_parse_char(_, _, _)
RECURSIVE fold_many0_step(_, _, _, _)
\* fold_many0(parse_char, String::new, |string, c| string.push(c))
fold_many0_parse_char(s, i, acc) == fold_many0_step(s, i, acc, parse_char(s, i))

fold_many0_step(s, i, acc, r) ==
    IF r.kind = "Error" THEN Ok(i, acc)
    ELSE IF ~IsOk(r) THEN r
    ELSE IF r.pos = i THEN Err("Error", from_error_kind(i, "Many0"))
    ELSE fold_many0_parse_char(s, r.pos, Append(acc, r.val))

\* preceded(.., terminated(fold_many0(..), cut(char('"')))) after the body
string_body(s, body) ==
    IF ~IsOk(body) THEN body
    ELSE terminated(body, cut(char("\"", s, body.pos)))

\* preceded(cut(tag("\"")), ..) after the opening quote
string_open(s, open) ==
    IF ~IsOk(open) THEN open
    ELSE string_body(s, fold_many0_parse_char(s, open.pos, <<>>))

string(s, i) == context("string", string_open(s, cut(tag(<<"\"">>, s, i))), i)

----------------------------------------------------------------------------
(* Containers and the value dispatcher                                     *)

RECURSIVE json_value(_, _)
RECURSIVE array(_, _)
RECURSIVE array_element(_, _)
RECURSIVE hash(_, _)
RECURSIVE key_value(_, _)
RECURSIVE element(_, _, _)
RECURSIVE separated_list0_loop(_, _, _, _)
RECURSIVE list_element(_, _, _, _, _)
RECURSIVE list_separator(_, _, _, _, _)

\* preceded(multispace0, char(',')): the separator of both element lists
separator(s, i) == char(",", s, multispace0(s, i).pos)

\* the element parser handed to separated_list0 by `array` or by `hash`
element(which, s, i) ==
    IF which = "array" THEN array_element(s, i) ELSE key_value(s, i)

\* nom::multi::separated_list0, an element just read: Error ends the list at
\* i (before the separator, if there was one) with the elements read so far
list_element(which, s, i, res, el) ==
    IF el.kind = "Error" THEN Ok(i, res)
    ELSE IF ~IsOk(el) THEN el
    ELSE separated_list0_loop(which, s, el.pos, Append(res, el.val))

\* nom::multi::separated_list0, a separator just read
list_separator(which, s, i, res, sep) ==
    IF sep.kind = "Error" THEN Ok(i, res)
    ELSE IF ~IsOk(sep) THEN sep
    ELSE IF sep.pos = i THEN Err("Error", from_error_kind(sep.pos, "SeparatedList"))
    ELSE list_element(which, s, i, res, element(which, s, sep.pos))

\* nom::multi::separated_list0: the loop over (separator, element)
separated_list0_loop(which, s, i, res) ==
    list_separator(which, s, i, res, separator(s, i))

\* nom::multi::separated_list0(separator, element)
separated_list0(which, s, i) == list_element(which, s, i, <<>>, element(which, s, i))

array_peeked(s, i, next_char) ==
    IF ~IsOk(next_char) THEN next_char
    ELSE IF next_char.val = "]" THEN Err("Error", from_char(i, "]"))
    ELSE json_value(s, i)

\* the closure of `array`: peek(anychar), refuse ']', else json_value
array_element(s, i) == array_peeked(s, i, peek(anychar(s, i), i))

\* array_close with a separator tolerated before the ']'
array_close_lenient(s, i) ==
    IF At(s, multispace0(s, i).pos) = ","
    THEN char("]", s, multispace0(s, multispace0(s, i).pos + 1).pos)
    ELSE char("]", s, multispace0(s, i).pos)

\* preceded(multispace0, char(']'))
array_close(s, i) == char("]", s, multispace0(s, i).pos)

\* delimited(.., .., preceded(multispace0, char(']'))) after the list
array_list(s, list) ==
    IF ~IsOk(list) THEN list ELSE terminated(list, array_close(s, list.pos))

\* delimited(cut(char('[')), cut(separated_list0(..)), ..) after the '['
array_open(s, open) ==
    IF ~IsOk(open) THEN open
    ELSE array_list(s, cut(separated_list0("array", s, open.pos)))

array(s, i) == context("array", array_open(s, cut(char("[", s, i))), i)

key_value_colon(s, key, colon) ==
    IF ~IsOk(colon) THEN colon
    ELSE separated_pair(key, json_value(s, colon.pos))

\* separated_pair(string, cut(preceded(multispace0, char(':'))), json_value)
key_value_key(s, key) ==
    IF ~IsOk(key) THEN key
    ELSE key_value_colon(s, key, cut(char(":", s, multispace0(s, key.pos).pos)))

key_value_peeked(s, i, next_char) ==
    IF ~IsOk(next_char) THEN next_char
    ELSE IF next_char.val = "}" THEN Err("Error", from_char(i, "}"))
    ELSE key_value_key(s, string(s, i))

key_value_ws(s, ws) == key_value_peeked(s, ws.pos, peek(anychar(s, ws.pos), ws.pos))

key_value(s, i) == key_value_ws(s, multispace0(s, i))

\* Insert that keeps the value of a key already present
InsertKeepFirst(m, key, val) ==
    [k \in DOMAIN m \cup {key} |-> IF k \in DOMAIN m THEN m[k] ELSE val]

\* HashMap::insert: the key now maps to val, whether or not it was present
Insert(m, key, val) ==
    [k \in DOMAIN m \cup {key} |-> IF k = key THEN val ELSE m[k]]

RECURSIVE CollectFrom(_, _, _)
\* tuple_vec.into_iter().collect::<HashMap<_, _>>(): inserts in order
CollectFrom(tuple_vec, n, m) ==
    IF n > Len(tuple_vec) THEN m
    ELSE CollectFrom(tuple_vec, n + 1, Insert(m, tuple_vec[n][1], tuple_vec[n][2]))

\* map(separated_list0(..), |tuple_vec| tuple_vec.into_iter().collect())
collect(list) ==
    IF ~IsOk(list) THEN list ELSE mapval(list, CollectFrom(list.val, 1, <<>>))

\* preceded(multispace0, char('}'))
hash_close(s, i) == char("}", s, multispace0(s, i).pos)

\* terminated(map(separated_list0(..), collect), preceded(multispace0, char('}')))
hash_list(s, list) ==
    IF ~IsOk(list) THEN list ELSE terminated(list, hash_close(s, list.pos))

\* preceded(cut(tag("{")), cut(terminated(..))) after the '{'
hash_open(s, open) ==
    IF ~IsOk(open) THEN open
    ELSE cut(hash_list(s, collect(separated_list0("hash", s, open.pos))))

hash(s, i) == context("map", hash_open(s, cut(tag(<<"{">>, s, i))), i)

RECURSIVE many0_multispace1(_, _)
RECURSIVE many0_step(_, _, _)
\* many0(multispace1)
many0_multispace1(s, i) == many0_step(s, i, multispace1(s, i))

many0_step(s, i, r) ==
    IF r.kind = "Error" THEN Ok(i, <<>>)
    ELSE IF ~IsOk(r) THEN r
    ELSE IF r.pos = i THEN Err("Error", from_error_kind(i, "Many0"))
    ELSE many0_multispace1(s, r.pos)

\* Production with the arms of 'f' and 't' exchanged and no arm for 'n'
ProductionSwapped(first_char) ==
    CASE first_char = "{" -> "hash"
      [] first_char = "[" -> "array"
      [] first_char = "\"" -> "string"
      [] first_char = "-" \/ first_char \in Digits -> "double"
      [] first_char = "f" -> "parse_true"
      [] first_char = "t" -> "parse_false"
      [] OTHER -> "unexpected"

\* the production `first_char` selects: the match arms of json_value
Production(first_char) ==
    CASE first_char = "{" -> "hash"
      [] first_char = "[" -> "array"
      [] first_char = "\"" -> "string"
      [] first_char = "-" \/ first_char \in Digits -> "double"
      [] first_char = "f" -> "parse_false"
      [] first_char = "t" -> "parse_true"
      [] first_char = "n" -> "null"
      [] OTHER -> "unexpected"

\* JsonValue::Variant applied to the output of the production
Variant(prod, o) ==
    CASE prod = "hash" -> JObject(o)
      [] prod = "array" -> JArray(o)
      [] prod = "string" -> JStr(o)
      [] prod = "double" -> JNum(o)
      [] prod \in {"parse_false", "parse_true"} -> JBoolean(o)
      [] prod = "null" -> JNull

\* map(production, JsonValue::Variant)
map_variant(prod, r) == IF ~IsOk(r) THEN r ELSE mapval(r, Variant(prod, r.val))

\* the selected production applied at i, or the unexpected-character Failure
Dispatch(prod, s, i) ==
    CASE prod = "hash" -> map_variant(prod, hash(s, i))
      [] prod = "array" -> map_variant(prod, array(s, i))
      [] prod = "string" -> map_variant(prod, string(s, i))
      [] prod = "double" -> map_variant(prod, double(s, i))
      [] prod = "parse_false" -> map_variant(prod, parse_false(s, i))
      [] prod = "parse_true" -> map_variant(prod, parse_true(s, i))
      [] prod = "null" -> map_variant(prod, null(s, i))
      [] OTHER -> Err("Failure", from_char(i, At(s, i)))

json_value_peeked(s, i, first_char) ==
    IF ~IsOk(first_char) THEN first_char
    ELSE Dispatch(Production(first_char.val), s, i)

json_value_ws(s, ws) ==
    IF ~IsOk(ws) THEN ws
    ELSE json_value_peeked(s, ws.pos, peek(anychar(s, ws.pos), ws.pos))

json_value(s, i) == json_value_ws(s, many0_multispace1(s, i))

\* terminated(json_value, multispace0) after the value
parse_value(s, v) ==
    IF ~IsOk(v) THEN v ELSE terminated(v, multispace0(s, v.pos))

\* terminated(json_value, multispace0).parse(i)
parse(s) == parse_value(s, json_value(s, 1))

----------------------------------------------------------------------------
(* Input texts                                                             *)

\* longest run of fragments in a structural text
MaxFrags == 4

\* longest run of fragments after the opening quote of a string text
MaxEsc == 3

\* longest run of fragments in a text of literals
MaxWords == 2

\* deepest nesting of a container around a core text
MaxDepth == 2

\* most members of an object text with repeated keys
MaxMembers == 3

RECURSIVE FragTexts(_, _)
\* the texts made of at most n fragments
FragTexts(frags, n) ==
    IF n = 0 THEN {<<>>}
    ELSE LET shorter == FragTexts(frags, n - 1)
         IN shorter \cup {t \o f : t \in shorter, f \in frags}

KeyK == <<"\"", "k", "\"">>

StructFrags ==
    {<<"[">>, <<"]">>, <<"{">>, <<"}">>, <<",">>, <<":">>, <<" ">>, <<"1">>, KeyK}

StructTexts == FragTexts(StructFrags, MaxFrags)

WordFrags ==
    { <<" ">>, <<"\n">>, <<"t", "r", "u", "e">>, <<"f", "a", "l", "s", "e">>,
      <<"n", "u", "l", "l">>, <<"t">>, <<"f">>, <<"n">>, <<"-">>, <<"1">>,
      <<"x">>, <<"]">>, <<"\"">>, <<"[">>, <<"{">>, <<".">>, <<"e">> }

WordTexts == FragTexts(WordFrags, MaxWords)

U(q) == <<"\\", "u">> \o q

EscFrags ==
    { U(<<"D", "8", "3", "D">>), U(<<"D", "E", "0", "0">>),
      U(<<"0", "0", "4", "1">>), U(<<"1", "2", "G", "4">>),
      U(<<"+", "1", "2", "3">>), U(<<"D", "8">>),
      <<"\\", "n">>, <<"\\", "q">>, <<"\\">>, <<"\"">>, <<"a">> }

StringTexts == {<<"\"">> \o t : t \in FragTexts(EscFrags, MaxEsc)}

\* code units at the edges of the surrogate ranges
Quads ==
    { <<"0", "0", "0", "0">>, <<"D", "7", "F", "F">>, <<"D", "8", "0", "0">>,
      <<"D", "B", "F", "F">>, <<"D", "C", "0", "0">>, <<"D", "F", "F", "F">>,
      <<"E", "0", "0", "0">>, <<"F", "F", "F", "F">>, <<"d", "8", "3", "d">>,
      <<"d", "e", "0", "0">> }

PairTexts ==
    {<<"\"">> \o U(h) \o tl : h \in Quads, tl \in {<<>>, <<"\"">>, <<"a", "\"">>}}
    \cup {<<"\"">> \o U(h) \o U(l) \o <<"\"">> : h \in Quads, l \in Quads}

\* a text inside one more container
Wraps(t) ==
    { <<"[">> \o t \o <<"]">>,
      <<"[", "1", ",">> \o t \o <<"]">>,
      <<"[">> \o t \o <<",", "1", "]">>,
      <<"{">> \o KeyK \o <<":">> \o t \o <<"}">>,
      <<"{">> \o KeyK \o <<":", "1", ",", " ">> \o KeyK \o <<" ", ":", " ">> \o t \o <<" ", "}">> }

RECURSIVE Nested(_, _)
\* the core texts inside at most n containers
Nested(cores, n) ==
    IF n = 0 THEN cores
    ELSE LET inner == Nested(cores, n - 1)
         IN inner \cup UNION {Wraps(t) : t \in inner}

\* arrays and objects whose last separator is followed by the closing delimiter
TrailingCommaCores ==
    { <<"[", "1", ",", "]">>, <<"[", "1", ",", " ", "]">>,
      <<"[", "1", " ", ",", "]">>, <<"[", "1", ",", "1", ",", "]">>,
      <<"[", "[", "]", ",", "\n", "]">>,
      <<"{">> \o KeyK \o <<":", "1", ",", "}">>,
      <<"{">> \o KeyK \o <<":", "1", ",", " ", "}">>,
      <<"{">> \o KeyK \o <<":", "1", " ", ",", "}">>,
      <<"{">> \o KeyK \o <<":", "[", "]", ",", "\n", "}">> }

TrailingCommaTexts == Nested(TrailingCommaCores, MaxDepth)

WsRuns == {<<>>, <<" ">>, <<"\n">>, <<" ", "\t">>}

EmptyArrayCores == {<<"[">> \o w \o <<"]">> : w \in WsRuns}

EmptyObjectCores == {<<"{">> \o w \o <<"}">> : w \in WsRuns}

EmptyTexts == Nested(EmptyArrayCores \cup EmptyObjectCores, MaxDepth)

Members == {<<k, v>> : k \in {"x", "y"}, v \in {"1", "2"}}

RECURSIVE MemberSeqs(_)
\* the member lists of at most n members
MemberSeqs(n) ==
    IF n = 0 THEN {<<>>}
    ELSE LET shorter == MemberSeqs(n - 1)
         IN shorter \cup {Append(ms, m) : ms \in shorter, m \in Members}

RenderMember(m) == <<"\"", m[1], "\"", ":", m[2]>>

RECURSIVE RenderMembers(_)
RenderMembers(ms) ==
    IF ms = <<>> THEN <<>>
    ELSE IF Len(ms) = 1 THEN RenderMember(ms[1])
    ELSE RenderMember(ms[1]) \o <<",">> \o RenderMembers(Tail(ms))

RenderObject(ms) == <<"{">> \o RenderMembers(ms) \o <<"}">>

ObjectTexts == {RenderObject(ms) : ms \in MemberSeqs(MaxMembers)}

\* the texts of the testable properties
Examples ==
    { <<"t", "r", "u", "e">>, <<"f", "a", "l", "s", "e">>, <<"n", "u", "l", "l">>,
      <<"-", "3", ".", "1", "4", "e", "2">>,
      <<"{", "\"", "a", "\"", ":", "[", "1", ",", "2", ",", "3", "]", ",",
        "\"", "b", "\"", ":", "{", "}", "}">>,
      <<"[", "1", ",", "2", ",", "]">>,
      <<"{", "\"", "a", "\"", ":", "1", ",", "}">>,
      <<"\"", "\\", "u", "D", "8", "3", "D", "\\", "u", "D", "E", "0", "0", "\"">>,
      <<"\"", "\\", "u", "D", "8", "3", "D", "\"">>,
      <<"{", "\"", "x", "\"", ":", "1", ",", "\"", "x", "\"", ":", "2", "}">>,
      <<"{", "}", " ", "t", "r", "a", "i", "l", "i", "n", "g", "-",
        "g", "a", "r", "b", "a", "g", "e">> }

\* string texts of at most one fragment, closed or not
ShortStrings ==
    {<<"\"">> \o t \o tl : t \in FragTexts(EscFrags, 1), tl \in {<<>>, <<"\"">>}}

\* a string text as an element, a member value or a member key
StringsInContainers ==
    UNION {Wraps(t) : t \in ShortStrings}
    \cup {<<"{">> \o t \o <<":", "1", "}">> : t \in ShortStrings}

Inputs ==
    StructTexts \cup WordTexts \cup StringTexts \cup PairTexts
    \cup TrailingCommaTexts \cup EmptyTexts \cup ObjectTexts
    \cup StringsInContainers \cup Examples

----------------------------------------------------------------------------
(* The state machine: a text is chosen, then one parser is applied to it   *)

Init ==
    /\ input \in Inputs
    /\ op = "init"
    /\ result = Err("Error", <<>>)

\* parse(&json), as main calls it
DoParse ==
    /\ op = "init"
    /\ op' = "parse"
    /\ result' = parse(input)
    /\ UNCHANGED input

DoJsonValue ==
    /\ op = "init"
    /\ op' = "json_value"
    /\ result' = json_value(input, 1)
    /\ UNCHANGED input

\* array(i), called by json_value when the next character is '['
DoArray ==
    /\ op = "init"
    /\ At(input, 1) = "["
    /\ op' = "array"
    /\ result' = array(input, 1)
    /\ UNCHANGED input

\* hash(i), called by json_value when the next character is '{'
DoHash ==
    /\ op = "init"
    /\ At(input, 1) = "{"
    /\ op' = "hash"
    /\ result' = hash(input, 1)
    /\ UNCHANGED input

\* string(i), called by json_value when the next character is '"' and by
\* key_value when it is anything but '}', white space or the end of input
DoString ==
    /\ op = "init"
    /\ At(input, 1) \notin Whitespace \cup {"}", EOF}
    /\ op' = "string"
    /\ result' = string(input, 1)
    /\ UNCHANGED input

\* unicode_escape(i), called by parse_char once '\' and 'u' are consumed
DoUnicodeEscape ==
    /\ op = "init"
    /\ StartsWith(input, 1, <<"\"", "\\", "u">>)
    /\ op' = "unicode_escape"
    /\ result' = unicode_escape(input, 4)
    /\ UNCHANGED input

Next ==
    \/ DoParse
    \/ DoJsonValue
    \/ DoArray
    \/ DoHash
    \/ DoString
    \/ DoUnicodeEscape

Spec == Init /\ [][Next]_vars

----------------------------------------------------------------------------
(* Properties                                                              *)

\* the index after the white space that starts the input
Start == SpanEnd(input, 1, Whitespace)

\* the last entry of a VerboseError: the outermost context
Outermost(err) == err[Len(err)]

RECURSIVE TrailingCommaIn(_, _, _, _)
\* whether s[i..last], read as JSON text, holds outside its string literals
\* a ',' followed, after white space, by ']' or '}'
TrailingCommaIn(s, i, last, inString) ==
    IF i > last THEN FALSE
    ELSE IF inString
    THEN IF s[i] = "\\" THEN TrailingCommaIn(s, i + 2, last, TRUE)
         ELSE TrailingCommaIn(s, i + 1, last, s[i] # "\"")
    ELSE IF s[i] = "\"" THEN TrailingCommaIn(s, i + 1, last, TRUE)
    ELSE IF s[i] = "," /\ SpanEnd(s, i + 1, Whitespace) <= last
                       /\ At(s, SpanEnd(s, i + 1, Whitespace)) \in {"]", "}"}
    THEN TRUE
    ELSE TrailingCommaIn(s, i + 1, last, FALSE)

\* C1: parse succeeds only when the whole input is consumed: a valid value
\* followed, after optional white space, by a non-white-space character is a
\* failure, never a success that leaves input unconsumed.
C1_ParseConsumesWholeInput ==
    (op = "parse" /\ IsOk(result)) => result.pos = Len(input) + 1

\* C2: trailing commas are always rejected.  No text that parse accepts holds,
\* in the part it consumed, a separator followed after white space by a
\* closing ']' or '}'; and every array or object text that is well formed but
\* for such a separator, standalone or nested, makes parse return an error.
C2_TrailingCommaRejected ==
    op = "parse" =>
        /\ IsOk(result) => ~TrailingCommaIn(input, 1, result.pos - 1, FALSE)
        /\ input \in TrailingCommaTexts => result.kind \in {"Error", "Failure"}

C2_Witness ==
    /\ op = "parse"
    /\ input = <<"{">> \o KeyK \o <<":", "[", "1", ",", " ", "]", "}">>
    /\ result.kind = "Failure"

\* C3: once array has consumed the '[', every later failure of that array is
\* a nom Failure, never a recoverable Error.
C3_ArrayFailuresFatal == op = "array" => result.kind \in {"Ok", "Failure"}

\* C4: once hash has consumed the '{', every outcome but a value is a nom
\* Failure.
C4_HashFailuresFatal == op = "hash" => result.kind \in {"Ok", "Failure"}

\* What of C4 holds of the code: hash never returns a recoverable Error.
HashNeverRecoverable == op = "hash" => result.kind # "Error"

RECURSIVE FirstUnescapedQuote(_, _)
\* the index of the first '"' of s at or after i that no backslash escapes,
\* 0 when there is none
FirstUnescapedQuote(s, i) ==
    IF i > Len(s) THEN 0
    ELSE IF s[i] = "\\" THEN FirstUnescapedQuote(s, i + 2)
    ELSE IF s[i] = "\"" THEN i
    ELSE FirstUnescapedQuote(s, i + 1)

\* C5: once string has consumed the opening quote it either returns the text
\* up to the first unescaped quote or fails with a nom Failure; so it does on
\* input that ends before a closing quote or right after a backslash.
C5_StringCommitted ==
    (op = "string" /\ At(input, 1) = "\"") =>
        /\ result.kind \in {"Ok", "Failure"}
        /\ IsOk(result) => result.pos - 1 = FirstUnescapedQuote(input, 2)
        /\ FirstUnescapedQuote(input, 2) = 0 => result.kind = "Failure"

\* What of C5 holds of the code: no recoverable Error after the opening
\* quote, a value only up to the first unescaped quote, and none without one.
StringNeverRecoverable ==
    (op = "string" /\ At(input, 1) = "\"") =>
        /\ result.kind # "Error"
        /\ IsOk(result) => result.pos - 1 = FirstUnescapedQuote(input, 2)
        /\ FirstUnescapedQuote(input, 2) = 0 => ~IsOk(result)

\* whether s[i..i+3] are four hexadecimal digits
IsHexQuad(s, i) ==
    /\ i + 3 <= Len(s)
    /\ \A k \in 0..3 : HexVal(s[i + k]) >= 0

\* the 16-bit unit written by the four hexadecimal digits s[i..i+3]
HexQuadVal(s, i) ==
    4096 * HexVal(s[i]) + 256 * HexVal(s[i + 1]) + 16 * HexVal(s[i + 2])
    + HexVal(s[i + 3])

RECURSIVE InvalidEscapeIn(_, _)
\* whether the string body read from s[i] holds, before its closing quote, a
\* backslash followed by an unknown designator or a \u not followed by four
\* hexadecimal digits
InvalidEscapeIn(s, i) ==
    IF i > Len(s) \/ At(s, i) = "\"" THEN FALSE
    ELSE IF s[i] # "\\" THEN InvalidEscapeIn(s, i + 1)
    ELSE IF i + 1 > Len(s) THEN FALSE
    ELSE IF s[i + 1] = "u"
    THEN IF IsHexQuad(s, i + 2) THEN InvalidEscapeIn(s, i + 6) ELSE TRUE
    ELSE IF s[i + 1] \in {"\"", "\\", "/", "b", "f", "n", "r", "t"}
    THEN InvalidEscapeIn(s, i + 2)
    ELSE TRUE

\* C6: an invalid escape inside a string (an unknown designator, or a \u not
\* followed by four hexadecimal digits) makes parse return a nom Failure; the
\* parser never panics and never accepts such a string.
C6_InvalidEscapeFatal ==
    op = "parse" =>
        /\ result.kind # "Panic"
        /\ (At(input, 1) = "\"" /\ InvalidEscapeIn(input, 2))
               => result.kind = "Failure"

\* What of C6 holds of the code: an unknown designator is a nom Failure.
UnknownDesignatorFatal ==
    (op = "parse" /\ Len(input) >= 3 /\ input[1] = "\"" /\ input[2] = "\\"
        /\ input[3] \notin {"\"", "\\", "/", "b", "f", "n", "r", "t", "u"})
        => result.kind = "Failure"

\* the input opens a string with \u and four hexadecimal digits
OpensWithUnit == StartsWith(input, 1, <<"\"", "\\", "u">>) /\ IsHexQuad(input, 4)

\* the input opens a string with a high surrogate and then a low surrogate
OpensWithPair ==
    /\ OpensWithUnit
    /\ 55296 <= HexQuadVal(input, 4) /\ HexQuadVal(input, 4) < 56320
    /\ StartsWith(input, 8, <<"\\", "u">>) /\ IsHexQuad(input, 10)
    /\ 56320 <= HexQuadVal(input, 10) /\ HexQuadVal(input, 10) < 57344

\* the input opens a string with a surrogate unit that begins no valid pair
OpensWithLoneSurrogate ==
    /\ OpensWithUnit
    /\ 55296 <= HexQuadVal(input, 4) /\ HexQuadVal(input, 4) < 57344
    /\ ~OpensWithPair

RaisedBy(ctx) ==
    /\ result.err # <<>>
    /\ Outermost(result.err) = [at |-> Start, k |-> "Context", d |-> ctx]

\* the result of json_value on a keyword read at Start
Keyword(word, val) ==
    IF StartsWith(input, Start, word)
    THEN /\ IsOk(result)
         /\ result.pos = Start + Len(word)
         /\ result.val = val
    ELSE /\ result.kind = "Error"
         /\ result.err = <<[at |-> Start, k |-> "Nom", d |-> "Tag"]>>

\* C8: json_value skips leading white space and chooses the production from
\* the next character alone, without consuming it: '{' object, '[' array, '"'
\* string, digit or '-' number, 'f' false, 't' true, 'n' null; any other
\* character is a nom Failure naming that character; and the outcome is the
\* chosen production's, no second production being tried when it fails.
C8_Dispatch ==
    (op = "json_value" /\ Start <= Len(input)) =>
        LET c == input[Start]
        IN CASE c = "{" ->
                  /\ IsOk(result) => result.val.t = "Object"
                  /\ result.kind \in {"Error", "Failure"} => RaisedBy("map")
             [] c = "[" ->
                  /\ IsOk(result) => result.val.t = "Array"
                  /\ result.kind \in {"Error", "Failure"} => RaisedBy("array")
             [] c = "\"" ->
                  /\ IsOk(result) => result.val.t = "Str"
                  /\ result.kind \in {"Error", "Failure"} => RaisedBy("string")
             [] c = "-" \/ c \in Digits ->
                  /\ IsOk(result) => result.val.t = "Num" /\ result.pos > Start
                  /\ ~IsOk(result) =>
                         /\ result.kind \in {"Error", "Failure"}
                         /\ \A n \in 1..Len(result.err) : result.err[n].k = "Nom"
             [] c = "f" -> Keyword(<<"f", "a", "l", "s", "e">>, JBoolean(FALSE))
             [] c = "t" -> Keyword(<<"t", "r", "u", "e">>, JBoolean(TRUE))
             [] c = "n" -> Keyword(<<"n", "u", "l", "l">>, JNull)
             [] OTHER ->
                  /\ result.kind = "Failure"
                  /\ result.err = <<[at |-> Start, k |-> "Char", d |-> c]>>

C8_Witness ==
    /\ op = "json_value"
    /\ input = <<" ", "x">>
    /\ result.kind = "Failure"
    /\ result.err = <<[at |-> 2, k |-> "Char", d |-> "x"]>>

\* the string a member's key denotes, and the number its value denotes
KeyOf(m) == <<CodePoint(m[1])>>

ValOf(m) == JNum([neg |-> FALSE, m |-> DigitVal(m[2]), e |-> 0])

\* the members of ms whose key does not occur again later in ms
LastOccurrences(ms) ==
    {n \in 1..Len(ms) : \A k \in (n + 1)..Len(ms) : ms[k][1] # ms[n][1]}

\* C9: duplicate keys are resolved last-write-wins.  For every object text
\* (here: members "x" or "y" with values 1 or 2, keys repeated or not) the
\* parse succeeds, the object holds each distinct key once, and each key maps
\* to the value of its last occurrence; no duplicate-key error is raised.
C9_LastWriteWins ==
    op = "parse" =>
        \A ms \in MemberSeqs(MaxMembers) :
            (Len(input) = 6 * Len(ms) + 1 /\ ms # <<>> /\ input = RenderObject(ms)) =>
                /\ IsOk(result)
                /\ result.pos = Len(input) + 1
                /\ result.val.t = "Object"
                /\ DOMAIN result.val.v = {KeyOf(ms[n]) : n \in 1..Len(ms)}
                /\ \A n \in LastOccurrences(ms) :
                       result.val.v[KeyOf(ms[n])] = ValOf(ms[n])

C9_Witness ==
    /\ op = "parse"
    /\ input = RenderObject(<<<<"x", "1">>, <<"y", "1">>, <<"x", "2">>>>)
    /\ IsOk(result)
    /\ DOMAIN result.val.v = {<<120>>, <<121>>}
    /\ result.val.v[<<120>>] = JNum([neg |-> FALSE, m |-> 2, e |-> 0])

\* C10: containers with zero elements are valid: `[]` and `{}`, and the same
\* with only white space between the delimiters, are accepted standalone and
\* nested and yield an empty Array / an empty Object, arrays and objects alike.
C10_EmptyContainers ==
    op = "parse" =>
        /\ input \in EmptyTexts => IsOk(result) /\ result.pos = Len(input) + 1
        /\ input \in EmptyArrayCores => IsOk(result) /\ result.val = JArray(<<>>)
        /\ input \in EmptyObjectCores =>
               /\ IsOk(result)
               /\ result.val.t = "Object"
               /\ DOMAIN result.val.v = {}

\* What of C10 holds of the code: `[]`, and `{}` with or without white space
\* inside, are accepted standalone and nested.
EmptyContainersButSpacedArrays ==
    (op = "parse" /\ input \in Nested(EmptyObjectCores \cup {<<"[", "]">>}, MaxDepth))
        => IsOk(result) /\ result.pos = Len(input) + 1

\* the index a VerboseError reports first: the site of the failure
Site(err) == err[1].at

RECURSIVE ContextsOf(_, _)
\* the rule names of the Context entries of err from entry n on, in the order
\* VerboseError holds them (the innermost production adds its name first)
ContextsOf(err, n) ==
    IF n > Len(err) THEN <<>>
    ELSE IF err[n].k = "Context" THEN <<err[n].d>> \o ContextsOf(err, n + 1)
    ELSE ContextsOf(err, n + 1)

RECURSIVE OpenRules(_, _, _, _)
\* the rules opened and not yet closed by the text s[i..last], innermost
\* first, on top of the rules of `open`: '"' opens and closes "string", '['
\* and ']' "array", '{' and '}' "map"
OpenRules(s, i, last, open) ==
    IF i > last THEN open
    ELSE IF open # <<>> /\ Head(open) = "string"
    THEN IF s[i] = "\\" THEN OpenRules(s, i + 2, last, open)
         ELSE IF s[i] = "\"" THEN OpenRules(s, i + 1, last, Tail(open))
         ELSE OpenRules(s, i + 1, last, open)
    ELSE IF s[i] = "\"" THEN OpenRules(s, i + 1, last, <<"string">> \o open)
    ELSE IF s[i] = "[" THEN OpenRules(s, i + 1, last, <<"array">> \o open)
    ELSE IF s[i] = "{" THEN OpenRules(s, i + 1, last, <<"map">> \o open)
    ELSE IF s[i] \in {"]", "}"} /\ open # <<>>
    THEN OpenRules(s, i + 1, last, Tail(open))
    ELSE OpenRules(s, i + 1, last, open)

\* the rules open when the character at index site is read
OpenAt(s, site) ==
    OpenRules(s, 1, IF site - 1 <= Len(s) THEN site - 1 ELSE Len(s), <<>>)

\* the texts of Inputs that parse accepts whole
AcceptedTexts ==
    {t \in Inputs : LET r == parse(t) IN IsOk(r) /\ r.pos = Len(t) + 1}

\* t and s agree on their first n characters (the end of input counting as one)
SamePrefix(t, s, n) == \A j \in 1..n : At(t, j) = At(s, j)

\* the trail of err names the rules open at its site, innermost first; a
\* string whose opening quote is what failed is named too
TrailNamesOpenRules(s, err) ==
    LET open == OpenAt(s, Site(err))
    IN  \/ ContextsOf(err, 1) = open
        \/ /\ err[1] = [at |-> Site(err), k |-> "Nom", d |-> "Tag"]
           /\ ContextsOf(err, 1) = <<"string">> \o open

\* a single character reported as offending is where the text stops being the
\* start of anything parse accepts
SiteIsWhereParsingStopped(s, err) ==
    err[1].k = "Char" =>
        \A t \in AcceptedTexts : ~SamePrefix(t, s, Site(err))

\* C11: whenever parse fails, the error reports the position where the failure
\* occurred and a context trail naming every rule ("string", "array", "map")
\* entered and not completed at that position, innermost first; a failure
\* inside a nested container is not reported at an outer position with the
\* inner container's context lost.
C11_ErrorSiteAndTrail ==
    (op = "parse" /\ result.kind \in {"Error", "Failure"}) =>
        /\ TrailNamesOpenRules(input, result.err)
        /\ SiteIsWhereParsingStopped(input, result.err)

\* The part of C11 on the trail alone
C11_TrailOnly ==
    (op = "parse" /\ result.kind \in {"Error", "Failure"}) =>
        TrailNamesOpenRules(input, result.err)

\* The part of C11 on the site alone
C11_SiteOnly ==
    (op = "parse" /\ result.kind \in {"Error", "Failure"}) =>
        SiteIsWhereParsingStopped(input, result.err)

\* the 16-bit units
Units == 0..65535

\* the second alternative's arithmetic stays inside u32 at every step: neither
\* subtraction goes below zero and the shifted sum stays below 2^31, hence
\* inside u32
NoOverflow(high, low) ==
    /\ high - 55296 >= 0
    /\ low - 56320 >= 0
    /\ (high - 55296) * 1024 <= 2147483647
    /\ CombineSurrogates(high, low) <= 2147483647

\* every unit the first alternative lets through is a scalar value
DirectUnitsAreScalar == \A cp \in Units : NotSurrogate(cp) => IsScalarValue(cp)

\* every pair the second alternative lets through combines, without overflow,
\* to a scalar value of the supplementary planes
PairsAreScalar ==
    \A high \in 55296..56319 : \A low \in 56320..57343 :
            /\ IsSurrogatePair(high, low)
            /\ NoOverflow(high, low)
            /\ 65536 <= CombineSurrogates(high, low)
            /\ CombineSurrogates(high, low) <= 1114111
            /\ IsScalarValue(CombineSurrogates(high, low))

\* C12: in unicode_escape the integer handed to std::char::from_u32 is always
\* a Unicode scalar value: a unit outside [0xD800, 0xE000) as it is, a pair
\* with high in [0xD800, 0xDC00) and low in [0xDC00, 0xE000) combined without
\* 32-bit overflow to a value in [0x10000, 0x10FFFF]; so from_u32 never
\* answers None, map_opt changes nothing and raises no MapOpt error.
C12_FromU32NeverNone ==
    /\ DirectUnitsAreScalar
    /\ PairsAreScalar
    /\ op = "unicode_escape" =>
           LET handed == unicode_alt(input, 4)
           IN  /\ IsOk(handed) => IsScalarValue(handed.val)
               /\ (IsOk(handed) /\ handed.pos = 14) =>
                      (65536 <= handed.val /\ handed.val <= 1114111)
               /\ result = handed
               /\ \A n \in 1..Len(result.err) : result.err[n].d # "MapOpt"

C12_Witness ==
    /\ op = "unicode_escape"
    /\ input = <<"\"">> \o U(<<"D", "B", "F", "F">>) \o U(<<"D", "F", "F", "F">>)
                 \o <<"\"">>
    /\ IsOk(result)
    /\ result.pos = 14
    /\ result.val = 1114111

\* the parser result r, read from index i, consumed at least one character
\* if it succeeded
Advances(r, i) == IsOk(r) => r.pos > i

\* every iteration of a repetition loop started at index i of s consumes input:
\* a white space run of many0(multispace1), a character of string's
\* fold_many0, a separator and an element of the separated_list0 of array and
\* of hash
LoopsAdvance(s, i) ==
    /\ Advances(multispace1(s, i), i)
    /\ Advances(parse_char(s, i), i)
    /\ Advances(separator(s, i), i)
    /\ Advances(element("array", s, i), i)
    /\ Advances(element("hash", s, i), i)

\* a container read at index i has consumed its opening delimiter, and a
\* member its key, before json_value is called again; and json_value itself
\* consumes input when it succeeds
RecursionAdvances(s, i) ==
    /\ Advances(cut(char("[", s, i)), i)
    /\ Advances(cut(tag(<<"{">>, s, i)), i)
    /\ Advances(string(s, i), i)
    /\ Advances(json_value(s, i), i)

\* no loop was stopped by nom's guard against a parser that consumes nothing
NoLoopGuard(err) ==
    \A n \in 1..Len(err) : err[n].d \notin {"Many0", "SeparatedList"}

\* the progress of C13, at every index of the input
Progress(s) ==
    \A i \in 1..(Len(s) + 1) : LoopsAdvance(s, i) /\ RecursionAdvances(s, i)

\* C13: parse terminates on every finite input with either a value or an
\* error: every iteration of the repetition loops (white space, the characters
\* of a string, the elements of an array and of an object) and every recursive
\* call of json_value through array or hash happens only after at least one
\* more character has been consumed, so steps and depth are bounded by the
\* length of the input.
C13_TerminatesWithValueOrError ==
    op = "parse" =>
        /\ result.kind \in {"Ok", "Error", "Failure"}
        /\ IsOk(result) => (result.pos > 1 /\ result.pos <= Len(input) + 1)
        /\ NoLoopGuard(result.err)
        /\ Progress(input)

\* The part of C13 on progress alone, whatever the outcome
C13_ProgressOnly ==
    op = "parse" =>
        /\ IsOk(result) => (result.pos > 1 /\ result.pos <= Len(input) + 1)
        /\ NoLoopGuard(result.err)
        /\ Progress(input)

====
